---- MODULE Spec2Model ----
(***************************************************************************)
(* Model of the self-update flow of workhelix-cli-common (src/update.rs):  *)
(* run_update, get_latest_version, perform_update, get_platform_string and *)
(* the two extractors.  Strings the code inspects character by character   *)
(* are sequences of one-character strings; Option<T> is a sequence of      *)
(* length 0 (None) or 1 (Some).                                            *)
(***************************************************************************)
EXTENDS Integers, Sequences, FiniteSets, TLC

VARIABLES
    pc,               \* position in run_update / perform_update
    version,          \* argument `version: Option<&str>`
    force,            \* argument `force`
    current_version,  \* argument `current_version`
    install_dir,      \* argument `install_dir` (TRUE: Some(dir))
    host,             \* (std::env::consts::OS, std::env::consts::ARCH)
    target_version,   \* local `target_version` (Option: unset until computed)
    install_path,     \* local `install_path` (Option)
    requests,         \* HTTP requests sent so far, in order
    reads,            \* number of read_line calls made on stdin
    response,         \* the line read from stdin (Option)
    bytes,            \* downloaded archive bytes (Option)
    checksum_status,  \* status class of the sidecar response
    checksum_text,    \* body of the sidecar response (Option)
    verification,     \* "none" | "passed" | "skipped" | "failed"
    temp_dir,         \* "none" | "exists" | "removed"
    extracted,        \* files unpacked into the temporary directory
    target,           \* the Install Target file: [content, mode]
    target0,          \* the Install Target as it was when the run began
    backup,           \* the Backup file: [content, mode]
    backup0,          \* the Backup path as it was when the run began
    fsops,            \* filesystem operations on Install Target / Backup, in order
    stages,           \* stages entered so far, in order
    failed,           \* stage in which the run failed, or "none"
    err,              \* error message kind, or "none"
    warnings,         \* warnings printed
    outcome,          \* terminal outcome, or "none"
    result,           \* value returned by run_update (Option)
    call,             \* function under direct call: "none" during run_update
    args,             \* arguments of that call
    ret               \* its return value (Option)

vars == <<pc, version, force, current_version, install_dir, host, target_version,
          install_path, requests, reads, response, bytes, checksum_status,
          checksum_text, verification, temp_dir, extracted, target, target0,
          backup, backup0, fsops, stages, failed, err, warnings, outcome, result,
          call, args, ret>>

\* What no step of run_update changes: its arguments, the host, the files as
\* they were, and the variables of the direct calls of the other functions.
inputs == <<version, force, current_version, install_dir, host, target0, backup0,
            call, args, ret>>

----------------------------------------------------------------------------
(* Bounds of the model *)

\* Largest number of entries in a modelled archive.
MaxEntries == 1

----------------------------------------------------------------------------
(* Option and string helpers *)

None == <<>>
Some(x) == <<x>>

Whitespace == {" ", "\n"}

\* char::to_lowercase on the letters that occur in the model
LowerChar(c) ==
    CASE c = "A" -> "a" [] c = "B" -> "b" [] c = "C" -> "c" [] c = "D" -> "d"
      [] c = "E" -> "e" [] c = "F" -> "f" [] c = "Y" -> "y" [] c = "S" -> "s"
      [] c = "N" -> "n" [] OTHER -> c

\* str::to_lowercase
ToLowercase(s) == [i \in 1..Len(s) |-> LowerChar(s[i])]

RECURSIVE TrimStart(_)
TrimStart(s) ==
    IF s # <<>> /\ Head(s) \in Whitespace THEN TrimStart(Tail(s)) ELSE s

RECURSIVE TrimEnd(_)
TrimEnd(s) ==
    IF s # <<>> /\ s[Len(s)] \in Whitespace
    THEN TrimEnd(SubSeq(s, 1, Len(s) - 1)) ELSE s

\* str::trim
Trim(s) == TrimEnd(TrimStart(s))

StartsWith(s, p) == Len(s) >= Len(p) /\ SubSeq(s, 1, Len(p)) = p

\* str::trim_start_matches: removes the pattern from the front repeatedly
RECURSIVE TrimStartMatches(_, _)
TrimStartMatches(s, p) ==
    IF p # <<>> /\ StartsWith(s, p)
    THEN TrimStartMatches(SubSeq(s, Len(p) + 1, Len(s)), p)
    ELSE s

RECURSIVE TakeToken(_)
TakeToken(s) ==
    IF s = <<>> \/ Head(s) \in Whitespace THEN <<>>
    ELSE <<Head(s)>> \o TakeToken(Tail(s))

\* str::split_whitespace().next()
FirstToken(s) ==
    LET t == TrimStart(s) IN IF t = <<>> THEN None ELSE Some(TakeToken(t))

----------------------------------------------------------------------------
(* Repository identity and URLs (src/types.rs) *)

\* RepoInfo::new(owner, name, tag_prefix) of the tool under update
RepoInfo == [owner |-> <<"a">>, name |-> <<"t">>, tag_prefix |-> <<"t", "-", "v">>]

\* RepoInfo::latest_release_url: format! concatenates literal pieces and fields
LatestReleaseUrl(repo) ==
    <<"https://api.github.com/repos/">> \o repo.owner \o <<"/">> \o repo.name
        \o <<"/releases/latest">>

\* RepoInfo::download_url
DownloadUrl(repo, ver, platform, extension) ==
    <<"https://github.com/">> \o repo.owner \o <<"/">> \o repo.name
        \o <<"/releases/download/">> \o repo.tag_prefix \o ver \o <<"/">>
        \o repo.name \o <<"-">> \o <<platform>> \o <<".">> \o <<extension>>

\* format!("{download_url}.sha256")
ChecksumUrl(download_url) == download_url \o <<".sha256">>

----------------------------------------------------------------------------
(* Platform (src/update.rs: get_platform_string, cfg! tests) *)

\* Mutant of GetPlatformString: an unknown pair gets a fallback token.
MutGetPlatformStringFallback(h) ==
    CASE h = <<"linux", "x86_64">>   -> Some("x86_64-unknown-linux-gnu")
      [] h = <<"linux", "aarch64">>  -> Some("aarch64-unknown-linux-gnu")
      [] h = <<"macos", "x86_64">>   -> Some("x86_64-apple-darwin")
      [] h = <<"macos", "aarch64">>  -> Some("aarch64-apple-darwin")
      [] h = <<"windows", "x86_64">> -> Some("x86_64-pc-windows-msvc")
      [] OTHER -> Some("unknown")

\* get_platform_string: Some(token), or None where the code panics
GetPlatformString(h) ==
    CASE h = <<"linux", "x86_64">>   -> Some("x86_64-unknown-linux-gnu")
      [] h = <<"linux", "aarch64">>  -> Some("aarch64-unknown-linux-gnu")
      [] h = <<"macos", "x86_64">>   -> Some("x86_64-apple-darwin")
      [] h = <<"macos", "aarch64">>  -> Some("aarch64-apple-darwin")
      [] h = <<"windows", "x86_64">> -> Some("x86_64-pc-windows-msvc")
      [] OTHER -> None

\* cfg!(target_os = "windows")
IsWindows(h) == h[1] = "windows"

\* #[cfg(unix)]
IsUnix(h) == h[1] \in {"linux", "macos", "freebsd"}

\* Mutant of ArchiveExt: every platform gets the tar.gz extension.
MutArchiveExtAlwaysTarGz(h) == "tar.gz"

\* archive_ext in perform_update
ArchiveExt(h) == IF IsWindows(h) THEN "zip" ELSE "tar.gz"

\* binary_name in perform_update
BinaryName(repo, h) ==
    IF IsWindows(h) THEN repo.name \o <<".", "e", "x", "e">> ELSE repo.name

----------------------------------------------------------------------------
(* Version extraction (src/update.rs: get_latest_version) *)

\* tag_name.trim_start_matches(tag_prefix).trim_start_matches('v')
VersionOfTag(repo, tag_name) ==
    TrimStartMatches(TrimStartMatches(tag_name, repo.tag_prefix), <<"v">>)

----------------------------------------------------------------------------
(* Digest and archives.  The digest stands for SHA-256 + hex::encode: a    *)
(* deterministic function of all the bytes, rendered in lower-case hex.    *)

\* mode set by perm.set_mode(0o755)
ExecMode == 493

HexDigits == <<"0", "1", "2", "3", "4", "5", "6", "7",
               "8", "9", "a", "b", "c", "d", "e", "f">>

RECURSIVE Sha256(_)
Sha256(b) ==
    IF b = <<>> THEN 227
    ELSE (Sha256(SubSeq(b, 1, Len(b) - 1)) * 31 + b[Len(b)] + 1) % 256

\* hex::encode(hasher.finalize())
Sha256Hex(b) ==
    LET d == Sha256(b) IN <<HexDigits[(d \div 16) + 1], HexDigits[(d % 16) + 1]>>

\* The files an archive entry byte stands for: name and permission bits.
EntryTable ==
    << [name |-> RepoInfo.name, mode |-> 493],
       [name |-> RepoInfo.name, mode |-> 420],
       [name |-> RepoInfo.name \o <<".", "e", "x", "e">>, mode |-> 420],
       [name |-> <<"R">>, mode |-> 420] >>

\* Unpacking the entries in order: a later entry replaces an earlier one of
\* the same name.
RECURSIVE Unpack(_)
Unpack(entries) ==
    IF entries = <<>> THEN {}
    ELSE LET e == EntryTable[entries[Len(entries)]]
             before == Unpack(SubSeq(entries, 1, Len(entries) - 1))
         IN {f \in before : f.name # e.name} \cup {e}

\* extract_tar_gz: Some(files), or None for "Failed to extract tar.gz"
ExtractTarGz(b) ==
    IF b # <<>> /\ b[1] = 31 THEN Some(Unpack(Tail(b))) ELSE None

\* extract_zip on windows; on every other target it is the stub that fails
ExtractZip(b, h) ==
    IF IsWindows(h) /\ b # <<>> /\ b[1] = 80 THEN Some(Unpack(Tail(b))) ELSE None

\* Mutant of ExtractArchive: the format byte is not examined and no error is raised.
MutExtractArchiveLenient(b, h) == Some(Unpack(Tail(b)))

\* the extractor perform_update selects with cfg!(target_os = "windows")
ExtractArchive(b, h) ==
    IF IsWindows(h) THEN ExtractZip(b, h) ELSE ExtractTarGz(b)

\* Mutant of BinaryExists: any extracted file satisfies the test.
MutBinaryExistsAnyFile(files, binary_name) == files # {}

\* extracted_binary.exists()
BinaryExists(files, binary_name) == \E f \in files : f.name = binary_name

\* Mutant of ChecksumMismatch: only the lengths of the two digests are compared.
MutChecksumMismatchLengthOnly(computed, expected) == Len(computed) # Len(expected)

\* computed_checksum.to_lowercase() != expected_checksum.to_lowercase()
ChecksumMismatch(computed, expected) == ToLowercase(computed) # ToLowercase(expected)

\* Mutant of ExpectedChecksum: the whole body is trimmed instead of taking its
\* first token.
MutExpectedChecksumTrimmed(body) == Trim(body)

\* expected_checksum.split_whitespace().next().unwrap_or(&expected_checksum)
ExpectedChecksum(body) ==
    IF FirstToken(body) = None THEN body ELSE FirstToken(body)[1]

\* Mutant of Affirmative: any answer that begins with "y" is accepted.
MutAffirmativePrefix(line) == StartsWith(ToLowercase(Trim(line)), <<"y">>)

\* matches!(response.trim().to_lowercase().as_str(), "y" | "yes")
Affirmative(line) == ToLowercase(Trim(line)) \in {<<"y">>, <<"y", "e", "s">>}

----------------------------------------------------------------------------
(* The environment: what the caller, the operator, the network and the     *)
(* filesystem can present to one run.                                      *)

Versions == {<<"1">>, <<"2">>}

Hosts == { <<"linux", "x86_64">>, <<"macos", "aarch64">>, <<"windows", "x86_64">>,
           <<"linux", "riscv64">> }

\* tag_name values a release document may carry
Tags == {RepoInfo.tag_prefix \o v : v \in Versions} \cup {<<"v">> \o v : v \in Versions}

\* Outcomes of GET latest_release_url followed by .json()
MetadataResponses ==
    { [kind |-> "send_err", tag_name |-> None],
      [kind |-> "not_json", tag_name |-> None],
      [kind |-> "json", tag_name |-> None] }
    \cup { [kind |-> "json", tag_name |-> Some(t)] : t \in Tags }

\* Lines the operator may enter (the empty line is end of input)
Lines == { <<"y", "\n">>, <<" ", "Y", "E", "S", " ", "\n">>, <<"n", "\n">>,
           <<"y", "e", "\n">>, <<>> }

RECURSIVE SeqsUpTo(_, _)
SeqsUpTo(S, n) ==
    IF n = 0 THEN {<<>>}
    ELSE LET shorter == SeqsUpTo(S, n - 1)
         IN shorter \cup {Append(q, x) : q \in shorter, x \in S}

\* Archive byte buffers: a leading format byte (31: gzip, 80: zip), then one
\* byte per entry; <<0>> is a buffer that is no archive at all.
Archives ==
    {<<0>>} \cup {<<m>> \o e : m \in {31, 80}, e \in SeqsUpTo(1..Len(EntryTable), MaxEntries)}

UpperChar(c) ==
    CASE c = "a" -> "A" [] c = "b" -> "B" [] c = "c" -> "C" [] c = "d" -> "D"
      [] c = "e" -> "E" [] c = "f" -> "F" [] OTHER -> c

\* Sidecar bodies a server may publish beside an archive b: the digest, the
\* digest in upper case followed by a file name, the digest of other bytes,
\* and an empty body.
SidecarBodies(b) ==
    { Sha256Hex(b),
      [i \in 1..2 |-> UpperChar(Sha256Hex(b)[i])] \o <<" ", " ", "f", "\n">>,
      Sha256Hex(b \o <<1>>),
      <<>> }

Absent == [content |-> "absent", mode |-> 0]

InitialTargets == {Absent, [content |-> "old", mode |-> 493]}

InitialBackups == {Absent, [content |-> "stale", mode |-> 420]}

----------------------------------------------------------------------------
(* Initial state: the arguments of run_update and the files on disk *)

Init ==
    /\ pc = "start"
    /\ version \in {None} \cup {Some(v) : v \in Versions}
    /\ force \in BOOLEAN
    /\ current_version \in Versions
    /\ install_dir \in BOOLEAN
    /\ host \in Hosts
    /\ target_version = None
    /\ install_path = None
    /\ requests = <<>>
    /\ reads = 0
    /\ response = None
    /\ bytes = None
    /\ checksum_status = "none"
    /\ checksum_text = None
    /\ verification = "none"
    /\ temp_dir = "none"
    /\ extracted = {}
    /\ target \in InitialTargets
    /\ target0 = target
    /\ backup \in InitialBackups
    /\ backup0 = backup
    /\ fsops = <<>>
    /\ stages = <<>>
    /\ failed = "none"
    /\ err = "none"
    /\ warnings = {}
    /\ outcome = "none"
    /\ result = None
    /\ call = "none"
    /\ args = <<>>
    /\ ret = None

----------------------------------------------------------------------------
(* Returns of run_update *)

\* `return 1` after eprintln!: a failure with message kind e in stage st
ReturnFailure(e, st) ==
    /\ pc' = "done"
    /\ result' = Some(1)
    /\ outcome' = "Failure"
    /\ err' = e
    /\ failed' = st

\* Mutant of PerformErr: the scratch directory outlives the failed run.
MutPerformErrKeepsTempDir(e, st) ==
    /\ ReturnFailure(e, st)
    /\ UNCHANGED temp_dir

\* perform_update returns Err(e): the TempDir guard is dropped on the way
\* out, then run_update prints "Update failed" and returns 1
PerformErr(e, st) ==
    /\ ReturnFailure(e, st)
    /\ temp_dir' = IF temp_dir = "exists" THEN "removed" ELSE temp_dir

\* the same, for an error raised in the action that created the TempDir
PerformErrAfterTempDir(e, st) ==
    /\ ReturnFailure(e, st)
    /\ temp_dir' = "removed"

\* panic!/unwrap(): the process aborts, run_update returns nothing
Panic(e) ==
    /\ pc' = "panicked"
    /\ outcome' = "Panic"
    /\ err' = e
    /\ UNCHANGED <<result, failed>>

NoReturn == UNCHANGED <<result, outcome, err, failed>>

----------------------------------------------------------------------------
(* run_update *)

\* get_latest_version on a response obtained from the metadata endpoint
GetLatestVersion(repo, r) ==
    CASE r.kind = "send_err" -> [ok |-> FALSE, val |-> <<>>, err |-> "SendError"]
      [] r.kind = "not_json" -> [ok |-> FALSE, val |-> <<>>, err |-> "ParseError"]
      [] r.tag_name = None   -> [ok |-> FALSE, val |-> <<>>, err |-> "NoTagName"]
      [] OTHER -> [ok |-> TRUE, val |-> VersionOfTag(repo, r.tag_name[1]), err |-> "none"]

\* Mutant of StartPinned: the pinned version is ignored and the latest release
\* is resolved instead.
MutStartPinnedResolves ==
    /\ pc = "start"
    /\ version # None
    /\ requests' = Append(requests,
           [kind |-> "metadata", url |-> LatestReleaseUrl(RepoInfo)])
    /\ \E t \in Tags : target_version' = Some(VersionOfTag(RepoInfo, t))
    /\ pc' = "check"
    /\ NoReturn
    /\ UNCHANGED <<inputs, install_path, reads, response, bytes, checksum_status,
                   checksum_text, verification, temp_dir, extracted, target,
                   backup, fsops, stages, warnings>>

\* `if let Some(v) = version { v.to_string() }`: the pinned string is the target
StartPinned ==
    /\ pc = "start"
    /\ version # None
    /\ target_version' = Some(version[1])
    /\ pc' = "check"
    /\ NoReturn
    /\ UNCHANGED <<inputs, install_path, requests, reads, response, bytes,
                   checksum_status, checksum_text, verification, temp_dir, extracted, target,
                   backup, fsops, stages, warnings>>

\* `match get_latest_version(repo_info)`: the Resolving stage
Resolve ==
    /\ pc = "start"
    /\ version = None
    /\ stages' = Append(stages, "Resolving")
    /\ \/ \* Client::builder().build() fails: no request is sent
          /\ ReturnFailure("ClientBuild", "Resolving")
          /\ UNCHANGED <<requests, target_version>>
       \/ /\ requests' = Append(requests,
                 [kind |-> "metadata", url |-> LatestReleaseUrl(RepoInfo)])
          /\ \E r \in MetadataResponses :
                LET got == GetLatestVersion(RepoInfo, r) IN
                IF got.ok
                THEN /\ target_version' = Some(got.val)
                     /\ pc' = "check"
                     /\ NoReturn
                ELSE /\ ReturnFailure(got.err, "Resolving")
                     /\ UNCHANGED target_version
    /\ UNCHANGED <<inputs, install_path, reads, response, bytes, checksum_status, checksum_text,
                   verification, temp_dir, extracted, target, backup, fsops,
                   warnings>>

\* Mutant of AlreadyUpToDate: the force flag is tested the wrong way round.
MutAlreadyUpToDateForced(tv, cv, f) == tv = cv /\ f

\* Mutant of AlreadyUpToDate: the force flag is not tested.
MutAlreadyUpToDateNoForce(tv, cv, f) == tv = cv

\* `target_version == current_version && !force`
AlreadyUpToDate(tv, cv, f) == tv = cv /\ ~f

\* Mutant of CheckUpToDate: the up-to-date return uses the success code.
MutCheckUpToDateReturnsZero ==
    /\ pc = "check"
    /\ IF AlreadyUpToDate(target_version[1], current_version, force)
       THEN /\ pc' = "done"
            /\ result' = Some(0)
            /\ outcome' = "AlreadyUpToDate"
            /\ UNCHANGED <<err, failed>>
       ELSE /\ pc' = "locate"
            /\ NoReturn
    /\ UNCHANGED <<inputs, target_version, install_path, requests, reads, response,
                   bytes, checksum_status, checksum_text, verification, temp_dir,
                   extracted, target, backup, fsops, stages, warnings>>

\* `if target_version == current_version && !force { return 2; }`
CheckUpToDate ==
    /\ pc = "check"
    /\ IF AlreadyUpToDate(target_version[1], current_version, force)
       THEN /\ pc' = "done"
            /\ result' = Some(2)
            /\ outcome' = "AlreadyUpToDate"
            /\ UNCHANGED <<err, failed>>
       ELSE /\ pc' = "locate"
            /\ NoReturn
    /\ UNCHANGED <<inputs, target_version, install_path, requests, reads, response,
                   bytes, checksum_status, checksum_text, verification, temp_dir, extracted,
                   target, backup, fsops, stages, warnings>>

\* `let install_path = ...`: dir.join(name), or std::env::current_exe()
Locate ==
    /\ pc = "locate"
    /\ \/ /\ install_dir
          /\ install_path' = Some("install_dir/name")
          /\ pc' = "confirm"
          /\ NoReturn
       \/ /\ ~install_dir
          /\ install_path' = Some("current_exe")
          /\ pc' = "confirm"
          /\ NoReturn
       \/ /\ ~install_dir
          /\ ReturnFailure("CurrentExe", "Locating")
          /\ UNCHANGED install_path
    /\ UNCHANGED <<inputs, target_version, requests, reads, response, bytes,
                   checksum_status, checksum_text, verification, temp_dir, extracted, target,
                   backup, fsops, stages, warnings>>

\* `if !force { ... read_line ... }`: the Confirming stage
Confirm ==
    /\ pc = "confirm"
    /\ stages' = Append(stages, "Confirming")
    /\ \/ /\ force
          /\ pc' = "perform"
          /\ NoReturn
          /\ UNCHANGED <<reads, response>>
       \/ \* io::stdout().flush().unwrap() panics
          /\ ~force
          /\ Panic("FlushFailed")
          /\ UNCHANGED <<reads, response>>
       \/ \* io::stdin().read_line(..).unwrap() panics
          /\ ~force
          /\ reads' = reads + 1
          /\ Panic("ReadFailed")
          /\ UNCHANGED response
       \/ /\ ~force
          /\ reads' = reads + 1
          /\ \E line \in Lines :
                /\ response' = Some(line)
                /\ IF Affirmative(line)
                   THEN /\ pc' = "perform"
                        /\ NoReturn
                   ELSE /\ pc' = "done"
                        /\ result' = Some(0)
                        /\ outcome' = "Cancelled"
                        /\ UNCHANGED <<err, failed>>
    /\ UNCHANGED <<inputs, target_version, install_path, requests, bytes,
                   checksum_status, checksum_text, verification, temp_dir, extracted, target,
                   backup, fsops, warnings>>

----------------------------------------------------------------------------
(* perform_update *)

\* the download_url local of perform_update
CurrentDownloadUrl ==
    DownloadUrl(RepoInfo, target_version[1], GetPlatformString(host)[1], ArchiveExt(host))

\* get_platform_string(), then building the download client
PerformStart ==
    /\ pc = "perform"
    /\ IF GetPlatformString(host) = None
       THEN /\ Panic("UnsupportedPlatform")
            /\ UNCHANGED <<stages, temp_dir>>
       ELSE /\ stages' = Append(stages, "Fetching")
            /\ \/ /\ pc' = "download"
                  /\ NoReturn
                  /\ UNCHANGED temp_dir
               \/ PerformErr("ClientBuild", "Fetching")
    /\ UNCHANGED <<inputs, target_version, install_path, requests, reads, response,
                   bytes, checksum_status, checksum_text, verification, extracted, target, backup,
                   fsops, warnings>>

\* client.get(&download_url).send(), the status test, response.bytes()
Download ==
    /\ pc = "download"
    /\ requests' = Append(requests, [kind |-> "archive", url |-> CurrentDownloadUrl])
    /\ \/ /\ PerformErr("SendError", "Fetching")
          /\ UNCHANGED bytes
       \/ /\ PerformErr("DownloadHttpStatus", "Fetching")
          /\ UNCHANGED bytes
       \/ /\ PerformErr("BodyRead", "Fetching")
          /\ UNCHANGED bytes
       \/ \E b \in Archives :
             /\ bytes' = Some(b)
             /\ pc' = "checksum"
             /\ NoReturn
             /\ UNCHANGED temp_dir
    /\ UNCHANGED <<inputs, target_version, install_path, reads, response,
                   checksum_status, checksum_text, verification, extracted, target, backup, fsops,
                   stages, warnings>>

\* client.get(&checksum_url).send().map_err(..)?
FetchChecksum ==
    /\ pc = "checksum"
    /\ requests' = Append(requests,
           [kind |-> "sidecar", url |-> ChecksumUrl(CurrentDownloadUrl)])
    /\ \/ /\ PerformErr("SendError", "Fetching")
          /\ UNCHANGED checksum_status
       \/ \E st \in {"success", "not_success"} :
             /\ checksum_status' = st
             /\ pc' = "verify"
             /\ NoReturn
             /\ UNCHANGED temp_dir
    /\ UNCHANGED <<inputs, target_version, install_path, reads, response, bytes,
                   checksum_text, verification, extracted, target, backup, fsops,
                   stages, warnings>>

\* `if checksum_response.status().is_success() { ... } else { ... }`
Verify ==
    /\ pc = "verify"
    /\ stages' = Append(stages, "Verifying")
    /\ \/ /\ checksum_status = "success"
          /\ \/ \* checksum_response.text() fails
                /\ PerformErr("BodyRead", "Verifying")
                /\ UNCHANGED <<verification, warnings, checksum_text>>
             \/ \E body \in SidecarBodies(bytes[1]) :
                   /\ checksum_text' = Some(body)
                   /\ IF ChecksumMismatch(Sha256Hex(bytes[1]), ExpectedChecksum(body))
                      THEN /\ verification' = "failed"
                           /\ PerformErr("ChecksumMismatch", "Verifying")
                      ELSE /\ verification' = "passed"
                           /\ pc' = "extract"
                           /\ NoReturn
                           /\ UNCHANGED temp_dir
                   /\ UNCHANGED warnings
       \/ /\ checksum_status # "success"
          /\ warnings' = warnings \cup {"NoChecksum"}
          /\ verification' = "skipped"
          /\ pc' = "extract"
          /\ NoReturn
          /\ UNCHANGED <<temp_dir, checksum_text>>
    /\ UNCHANGED <<inputs, target_version, install_path, requests, reads, response,
                   bytes, checksum_status, extracted, target, backup, fsops>>

\* tempfile::tempdir(), then extract_zip / extract_tar_gz into it
Extract ==
    /\ pc = "extract"
    /\ stages' = Append(stages, "Extracting")
    /\ \/ \* tempfile::tempdir() fails
          /\ PerformErr("TempDir", "Extracting")
          /\ UNCHANGED extracted
       \/ \* the unpacking fails on an I/O error
          /\ PerformErrAfterTempDir("ExtractFailed", "Extracting")
          /\ UNCHANGED extracted
       \/ /\ ExtractArchive(bytes[1], host) = None
          /\ PerformErrAfterTempDir("ExtractFailed", "Extracting")
          /\ UNCHANGED extracted
       \/ /\ ExtractArchive(bytes[1], host) # None
          /\ temp_dir' = "exists"
          /\ extracted' = ExtractArchive(bytes[1], host)[1]
          /\ pc' = "find"
          /\ NoReturn
    /\ UNCHANGED <<inputs, target_version, install_path, requests, reads, response,
                   bytes, checksum_status, checksum_text, verification, target, backup, fsops,
                   warnings>>

\* `if !extracted_binary.exists() { return Err(..) }`
FindBinary ==
    /\ pc = "find"
    /\ stages' = Append(stages, "Installing")
    /\ IF BinaryExists(extracted, BinaryName(RepoInfo, host))
       THEN /\ pc' = "backup"
            /\ NoReturn
            /\ UNCHANGED temp_dir
       ELSE PerformErr("BinaryNotFound", "Installing")
    /\ UNCHANGED <<inputs, target_version, install_path, requests, reads, response,
                   bytes, checksum_status, checksum_text, verification, extracted, target, backup,
                   fsops, warnings>>

\* Mutant of BackupCurrent: a failed backup copy ends the run with an error.
MutBackupCurrentFatal ==
    /\ pc = "backup"
    /\ \/ /\ target.content # "absent"
          /\ backup' = target
          /\ fsops' = Append(fsops, [op |-> "backup_copy", ok |-> TRUE])
          /\ pc' = "install"
          /\ NoReturn
          /\ UNCHANGED <<warnings, temp_dir>>
       \/ /\ warnings' = warnings \cup {"BackupFailed"}
          /\ fsops' = Append(fsops, [op |-> "backup_copy", ok |-> FALSE])
          /\ PerformErr("BackupFailed", "Installing")
          /\ UNCHANGED backup
    /\ UNCHANGED <<inputs, target_version, install_path, requests, reads, response,
                   bytes, checksum_status, checksum_text, verification, extracted,
                   target, stages>>

\* `if let Err(e) = fs::copy(install_path, &backup_path) { eprintln!(..) }`
BackupCurrent ==
    /\ pc = "backup"
    /\ \/ /\ target.content # "absent"
          /\ backup' = target
          /\ fsops' = Append(fsops, [op |-> "backup_copy", ok |-> TRUE])
          /\ UNCHANGED warnings
       \/ \* the copy fails before the Backup is opened for writing
          /\ warnings' = warnings \cup {"BackupFailed"}
          /\ fsops' = Append(fsops, [op |-> "backup_copy", ok |-> FALSE])
          /\ UNCHANGED backup
       \/ \* the copy fails part way through
          /\ target.content # "absent"
          /\ warnings' = warnings \cup {"BackupFailed"}
          /\ backup' = [content |-> "partial", mode |-> target.mode]
          /\ fsops' = Append(fsops, [op |-> "backup_copy", ok |-> FALSE])
    /\ pc' = "install"
    /\ NoReturn
    /\ UNCHANGED <<inputs, target_version, install_path, requests, reads, response,
                   bytes, checksum_status, checksum_text, verification, temp_dir, extracted,
                   target, stages>>

\* the extracted file fs::copy reads from, if it is there
ExtractedBinary == {f \in extracted : f.name = BinaryName(RepoInfo, host)}

\* Mutant of Install: the permission step is skipped on every platform.
MutInstallSkipsChmod ==
    /\ pc = "install"
    /\ \/ \E f \in ExtractedBinary :
             /\ target' = [content |-> "new", mode |-> f.mode]
             /\ fsops' = Append(fsops, [op |-> "install_copy", ok |-> TRUE])
             /\ pc' = "cleanup"
             /\ NoReturn
             /\ UNCHANGED temp_dir
       \/ /\ UNCHANGED target
          /\ fsops' = Append(fsops, [op |-> "install_copy", ok |-> FALSE])
          /\ PerformErr("InstallFailed", "Installing")
    /\ UNCHANGED <<inputs, target_version, install_path, requests, reads, response,
                   bytes, checksum_status, checksum_text, verification, extracted, backup, stages,
                   warnings>>

\* `fs::copy(&extracted_binary, install_path).map_err(..)?`: the copy carries
\* the permission bits of its source
Install ==
    /\ pc = "install"
    /\ \/ \E f \in ExtractedBinary :
             /\ target' = [content |-> "new", mode |-> f.mode]
             /\ fsops' = Append(fsops, [op |-> "install_copy", ok |-> TRUE])
             /\ pc' = IF IsUnix(host) THEN "chmod" ELSE "cleanup"
             /\ NoReturn
             /\ UNCHANGED temp_dir
       \/ \* the copy fails before the Install Target is opened for writing
          /\ UNCHANGED target
          /\ fsops' = Append(fsops, [op |-> "install_copy", ok |-> FALSE])
          /\ PerformErr("InstallFailed", "Installing")
       \/ \* the copy fails part way through
          \E f \in ExtractedBinary :
             /\ target' = [content |-> "partial", mode |-> f.mode]
             /\ fsops' = Append(fsops, [op |-> "install_copy", ok |-> FALSE])
             /\ PerformErr("InstallFailed", "Installing")
    /\ UNCHANGED <<inputs, target_version, install_path, requests, reads, response,
                   bytes, checksum_status, checksum_text, verification, extracted, backup, stages,
                   warnings>>

\* Mutant of SetPermissions: a permission failure puts the old binary back.
MutSetPermissionsRollsBack ==
    /\ pc = "chmod"
    /\ \/ /\ PerformErr("Metadata", "Installing")
          /\ target' = target0
          /\ UNCHANGED fsops
       \/ /\ PerformErr("SetPermissions", "Installing")
          /\ fsops' = Append(fsops, [op |-> "chmod", ok |-> FALSE])
          /\ target' = target0
       \/ /\ target' = [target EXCEPT !.mode = ExecMode]
          /\ fsops' = Append(fsops, [op |-> "chmod", ok |-> TRUE])
          /\ pc' = "cleanup"
          /\ NoReturn
          /\ UNCHANGED temp_dir
    /\ UNCHANGED <<inputs, target_version, install_path, requests, reads, response,
                   bytes, checksum_status, checksum_text, verification, extracted, backup, stages,
                   warnings>>

\* #[cfg(unix)]: fs::metadata, set_mode(0o755), fs::set_permissions
SetPermissions ==
    /\ pc = "chmod"
    /\ \/ /\ PerformErr("Metadata", "Installing")
          /\ UNCHANGED <<target, fsops>>
       \/ /\ PerformErr("SetPermissions", "Installing")
          /\ fsops' = Append(fsops, [op |-> "chmod", ok |-> FALSE])
          /\ UNCHANGED target
       \/ /\ target' = [target EXCEPT !.mode = ExecMode]
          /\ fsops' = Append(fsops, [op |-> "chmod", ok |-> TRUE])
          /\ pc' = "cleanup"
          /\ NoReturn
          /\ UNCHANGED temp_dir
    /\ UNCHANGED <<inputs, target_version, install_path, requests, reads, response,
                   bytes, checksum_status, checksum_text, verification, extracted, backup, stages,
                   warnings>>

\* Mutant of Cleanup: the Backup is never removed.
MutCleanupKeepsBackup ==
    /\ pc = "cleanup"
    /\ temp_dir' = "removed"
    /\ pc' = "done"
    /\ result' = Some(0)
    /\ outcome' = "Updated"
    /\ UNCHANGED <<err, failed, backup, fsops>>
    /\ UNCHANGED <<inputs, target_version, install_path, requests, reads, response,
                   bytes, checksum_status, checksum_text, verification, extracted,
                   target, stages, warnings>>

\* `if backup_path.exists() { let _ = fs::remove_file(&backup_path); }`, then
\* Ok(()) and the success return of run_update
Cleanup ==
    /\ pc = "cleanup"
    /\ \/ /\ backup.content = "absent"
          /\ UNCHANGED <<backup, fsops>>
       \/ /\ backup.content # "absent"
          /\ backup' = Absent
          /\ fsops' = Append(fsops, [op |-> "backup_remove", ok |-> TRUE])
       \/ \* remove_file fails; the error is discarded
          /\ backup.content # "absent"
          /\ fsops' = Append(fsops, [op |-> "backup_remove", ok |-> FALSE])
          /\ UNCHANGED backup
    /\ temp_dir' = "removed"
    /\ pc' = "done"
    /\ result' = Some(0)
    /\ outcome' = "Updated"
    /\ UNCHANGED <<err, failed>>
    /\ UNCHANGED <<inputs, target_version, install_path, requests, reads, response,
                   bytes, checksum_status, checksum_text, verification, extracted, target, stages,
                   warnings>>

----------------------------------------------------------------------------

Next ==
    \/ StartPinned
    \/ Resolve
    \/ CheckUpToDate
    \/ Locate
    \/ Confirm
    \/ PerformStart
    \/ Download
    \/ FetchChecksum
    \/ Verify
    \/ Extract
    \/ FindBinary
    \/ BackupCurrent
    \/ Install
    \/ SetPermissions
    \/ Cleanup

Spec == Init /\ [][Next]_vars

----------------------------------------------------------------------------
(* Vocabulary of the properties *)

Terminal == pc \in {"done", "panicked"}

Requested(kind) == \E i \in DOMAIN requests : requests[i].kind = kind

Entered(stage) == \E i \in DOMAIN stages : stages[i] = stage

LastStage == IF stages = <<>> THEN "none" ELSE stages[Len(stages)]

\* Nothing has been written to the Install Target or the Backup path.
FilesUntouched == fsops = <<>> /\ target = target0 /\ backup = backup0

\* The closed enumeration of supported (OS, architecture) pairs.
SupportedHosts ==
    { <<"linux", "x86_64">>, <<"linux", "aarch64">>, <<"macos", "x86_64">>,
      <<"macos", "aarch64">>, <<"windows", "x86_64">> }

\* The sidecar body was obtained and its first token is not the digest of
\* the downloaded bytes, compared without regard to letter case.
DigestDiffers ==
    /\ bytes # None
    /\ checksum_text # None
    /\ ToLowercase(ExpectedChecksum(checksum_text[1])) # ToLowercase(Sha256Hex(bytes[1]))

----------------------------------------------------------------------------
(* C1: whenever the sidecar was obtained and its expected digest differs    *)
(* from the digest of the downloaded bytes, the run has ended in Failure    *)
(* (return value 1, checksum-mismatch message) and neither the Install      *)
(* Target nor the Backup has been written: no backup copy, no overwrite, no *)
(* chmod.                                                                   *)
C1_MismatchFailsBeforeAnyWrite ==
    DigestDiffers =>
        /\ pc = "done"
        /\ outcome = "Failure"
        /\ result = Some(1)
        /\ err = "ChecksumMismatch"
        /\ FilesUntouched
        /\ temp_dir = "none"

C1_Witness ==
    /\ DigestDiffers
    /\ checksum_text[1] # <<>>
    /\ target0.content = "old"
    /\ pc = "done"

(* C2: once the archive has been unpacked and the Installing stage entered, *)
(* if no extracted file bears the expected binary name (the project name,   *)
(* with .exe on windows), the run has failed with the binary-not-found      *)
(* message and the Install Target and Backup are exactly as they were: no   *)
(* backup copy and no overwrite were attempted.                             *)
C2_MissingBinaryLeavesTargetUntouched ==
    (Entered("Installing") /\ ~(\E f \in extracted : f.name = BinaryName(RepoInfo, host))) =>
        /\ pc = "done"
        /\ outcome = "Failure"
        /\ result = Some(1)
        /\ err = "BinaryNotFound"
        /\ FilesUntouched

C2_Witness ==
    /\ Entered("Installing")
    /\ extracted # {}
    /\ ~(\E f \in extracted : f.name = BinaryName(RepoInfo, host))
    /\ target0.content = "old"
    /\ err = "BinaryNotFound"

(* C3: with force = false, once the target version (pinned or resolved) is  *)
(* known and equals the current version, no archive or sidecar request has  *)
(* been issued, no operator input has been read, and the run is either at   *)
(* the up-to-date test or has ended with the AlreadyUpToDate outcome        *)
(* (return value 2).                                                        *)
C3_UpToDateStopsBeforeFetch ==
    (~force /\ target_version = Some(current_version)) =>
        /\ ~Requested("archive")
        /\ ~Requested("sidecar")
        /\ reads = 0
        /\ ~Entered("Confirming")
        /\ pc \in {"check", "done"}
        /\ pc = "done" => (outcome = "AlreadyUpToDate" /\ result = Some(2))
        /\ FilesUntouched

C3_Witness ==
    /\ ~force
    /\ version = None
    /\ target_version = Some(current_version)
    /\ outcome = "AlreadyUpToDate"

C5_Original_SidecarFailureNeverFatal ==
    (bytes # None /\ Requested("sidecar") /\ checksum_text = None /\ pc # "verify") =>
        /\ verification = "skipped"
        /\ "NoChecksum" \in warnings
        /\ failed \notin {"Fetching", "Verifying"}

(* C6 as stated: every run with force = true that has ended has attempted   *)
(* the archive fetch.                                                       *)
C6_Original_ForcedRunAlwaysFetches ==
    (force /\ Terminal) => Requested("archive")

(* C6 amended: a forced run never ends as AlreadyUpToDate and never reads   *)
(* operator input; once it has ended, the archive fetch was attempted       *)
(* provided the target version was obtained, the install location was       *)
(* determined, the platform is supported and the download client was built, *)
(* also when the target version equals the current version.                 *)
C6_ForcedRunFetchesOnceResolved ==
    force =>
        /\ outcome \notin {"AlreadyUpToDate", "Cancelled"}
        /\ reads = 0
        /\ (/\ Terminal
            /\ target_version # None
            /\ install_path # None
            /\ host \in SupportedHosts
            /\ ~(err = "ClientBuild" /\ failed = "Fetching"))
           => Requested("archive")

C6_Witness ==
    /\ force
    /\ target_version = Some(current_version)
    /\ Requested("archive")
    /\ Terminal

\* The line the operator entered, trimmed and lower-cased, is "y" or "yes".
SaidYes ==
    /\ response # None
    /\ ToLowercase(Trim(response[1])) \in {<<"y">>, <<"y", "e", "s">>}

\* The run has gone on from Confirming to the head of perform_update.
WentOnToFetching ==
    \/ pc \in {"perform", "download", "checksum", "verify", "extract", "find",
               "backup", "install", "chmod", "cleanup"}
    \/ Entered("Fetching")
    \/ outcome = "Updated"
    \/ err = "UnsupportedPlatform"

(* C7: in Confirming, a forced run reads no operator input and goes on to   *)
(* Fetching; an unforced run makes exactly one read of a line (none if the  *)
(* prompt could not be flushed), goes on to Fetching exactly when that      *)
(* line, trimmed and lower-cased, is "y" or "yes", and for any other line   *)
(* ends Cancelled with return value 0, with no archive or sidecar request   *)
(* and nothing written.                                                     *)
C7_ConfirmationGate ==
    /\ force => (reads = 0 /\ response = None)
    /\ (force /\ Entered("Confirming")) => WentOnToFetching
    /\ (~force /\ Entered("Confirming")) =>
            reads = (IF err = "FlushFailed" THEN 0 ELSE 1)
    /\ ~Entered("Confirming") => (reads = 0 /\ response = None)
    /\ (~force /\ WentOnToFetching) => SaidYes
    /\ SaidYes => (WentOnToFetching /\ outcome # "Cancelled")
    /\ (response # None /\ ~SaidYes) =>
            /\ pc = "done"
            /\ outcome = "Cancelled"
            /\ result = Some(0)
            /\ ~Requested("archive")
            /\ ~Requested("sidecar")
            /\ FilesUntouched
    /\ outcome = "Cancelled" => (response # None /\ ~SaidYes)

C7_Witness ==
    /\ ~force
    /\ response = Some(<<"y", "e", "\n">>)
    /\ outcome = "Cancelled"
    /\ target0.content = "old"

\* Position of a stage in the fixed order of the update flow.
StageNo(stage) ==
    CASE stage = "Resolving"  -> 1
      [] stage = "Confirming" -> 2
      [] stage = "Fetching"   -> 3
      [] stage = "Verifying"  -> 4
      [] stage = "Extracting" -> 5
      [] stage = "Installing" -> 6

\* The first byte of the downloaded buffer is the format byte the host's
\* extractor accepts.
ArchiveReadable ==
    /\ bytes # None
    /\ bytes[1][1] = (IF host[1] = "windows" THEN 80 ELSE 31)

(* C8: the stages are entered in the fixed order Resolving, Fetching,       *)
(* Verifying, Extracting, Installing, none twice, each only after the one   *)
(* before it succeeded (Resolving being absent when a version is pinned);   *)
(* a failure in a stage ends the run with return value 1 in that stage, so  *)
(* that no later stage is entered and no effect of a later stage exists.    *)
C8_StagesLinearAndFailFast ==
    /\ \A i, j \in DOMAIN stages : i < j => StageNo(stages[i]) < StageNo(stages[j])
    \* each stage only after the previous one succeeded
    /\ Entered("Fetching") =>
            /\ target_version # None
            /\ Entered("Confirming")
            /\ version = None => Entered("Resolving")
    /\ Entered("Verifying") =>
            /\ Entered("Fetching")
            /\ bytes # None
            /\ Requested("archive")
            /\ Requested("sidecar")
    /\ Entered("Extracting") =>
            /\ Entered("Verifying")
            /\ verification \in {"passed", "skipped"}
            /\ ~DigestDiffers
    /\ Entered("Installing") =>
            /\ Entered("Extracting")
            /\ temp_dir # "none"
            /\ ArchiveReadable
    \* a failure ends the run in the stage where it happened
    /\ failed # "none" =>
            /\ pc = "done"
            /\ outcome = "Failure"
            /\ result = Some(1)
            /\ failed \in {LastStage, "Locating"}
    /\ err \in {"SendError", "ParseError", "NoTagName", "DownloadHttpStatus",
                "ChecksumMismatch", "ExtractFailed", "BinaryNotFound",
                "InstallFailed"} => failed = LastStage
    /\ outcome = "Updated" => (Entered("Installing") /\ failed = "none")
    \* no effect of a stage that was not entered
    /\ ~Entered("Resolving") => ~Requested("metadata")
    /\ ~Entered("Fetching") => (~Requested("archive") /\ ~Requested("sidecar") /\ bytes = None)
    /\ ~Entered("Verifying") => (verification = "none" /\ checksum_text = None)
    /\ ~Entered("Extracting") => (temp_dir = "none" /\ extracted = {})
    /\ ~Entered("Installing") => FilesUntouched
    \* no request is repeated
    /\ \A i, j \in DOMAIN requests : requests[i].kind = requests[j].kind => i = j

C8_Witness ==
    /\ failed = "Extracting"
    /\ err = "ExtractFailed"
    /\ ~ArchiveReadable
    /\ stages = <<"Resolving", "Confirming", "Fetching", "Verifying", "Extracting">>
    /\ verification = "passed"

\* The run is at, or has been through, the confirmation step.
ReachedConfirming == pc = "confirm" \/ Entered("Confirming")

(* C9 as stated: with a pinned version the run goes from Idle straight to   *)
(* Confirming: once it has left the steps before the confirmation, it is in *)
(* or has been through Confirming, with no release-metadata request made.   *)
C9_Original_PinnedReachesConfirming ==
    (version # None /\ pc \notin {"start", "check", "locate"}) =>
        (ReachedConfirming /\ ~Requested("metadata"))

(* C9 amended: with a pinned version the Resolving stage is skipped (no     *)
(* release-metadata request is ever made) and the target version is the     *)
(* pinned string; the run then enters Confirming, unless the pinned string  *)
(* equals the current version with force = false (it ends AlreadyUpToDate)  *)
(* or the path of the running executable cannot be determined (Failure).    *)
C9_PinnedSkipsResolving ==
    version # None =>
        /\ ~Requested("metadata")
        /\ ~Entered("Resolving")
        /\ target_version \in {None, Some(version[1])}
        /\ pc # "start" => target_version = Some(version[1])
        /\ pc \notin {"start", "check", "locate"} =>
              \/ ReachedConfirming
              \/ /\ outcome = "AlreadyUpToDate"
                 /\ version[1] = current_version
                 /\ ~force
              \/ /\ err = "CurrentExe"
                 /\ ~install_dir
        /\ (version[1] # current_version \/ force) => outcome # "AlreadyUpToDate"

C9_Witness ==
    /\ version # None
    /\ version[1] # current_version
    /\ ~force
    /\ pc = "confirm"
    /\ stages = <<>>
    /\ requests = <<>>
    /\ target_version = version

\* Index sets of the filesystem operations of one kind.
Ops(op) == {i \in DOMAIN fsops : fsops[i].op = op}

(* C10 as stated (second part): after a run that ends in Success-Updated no *)
(* Backup file remains.                                                     *)
C10_Original_NoBackupAfterSuccess ==
    outcome = "Updated" => backup.content = "absent"

(* C10 amended: the Backup is written by the first filesystem operation of  *)
(* the run, the overwrite of the Install Target is the very next one, and   *)
(* before that the Backup path is as it was; after Success-Updated no       *)
(* Backup remains unless its removal failed (the failure is ignored); after *)
(* a failed overwrite the run ends in Failure with no further filesystem    *)
(* operation: a Backup that was created still holds the pre-update binary   *)
(* and the Install Target does not get it back.                             *)
C10_BackupLifecycle ==
    /\ Ops("backup_copy") \subseteq {1}
    /\ Ops("install_copy") \subseteq {2}
    /\ fsops # <<>> => fsops[1].op = "backup_copy"
    /\ Len(fsops) = 1 => pc = "install"
    /\ fsops = <<>> => backup = backup0
    /\ pc \in {"install", "chmod", "cleanup"} =>
            backup = (IF fsops[1].ok THEN target0
                      ELSE IF backup.content = "partial" THEN backup ELSE backup0)
    /\ outcome = "Updated" =>
            \/ backup.content = "absent"
            \/ fsops[Len(fsops)] = [op |-> "backup_remove", ok |-> FALSE]
    /\ (\E i \in Ops("install_copy") : ~fsops[i].ok) =>
            /\ pc = "done"
            /\ outcome = "Failure"
            /\ err = "InstallFailed"
            /\ Len(fsops) = 2
            /\ fsops[1].ok => (backup = target0 /\ backup.content = "old")
            /\ target.content \in {target0.content, "partial"}

C10_Witness ==
    /\ Len(fsops) = 2
    /\ fsops[1] = [op |-> "backup_copy", ok |-> TRUE]
    /\ fsops[2] = [op |-> "install_copy", ok |-> FALSE]
    /\ target.content = "partial"
    /\ backup.content = "old"
    /\ pc = "done"

\* The new binary was copied over the Install Target and, where the host has
\* permission bits, made executable.
InstalledNewBinary ==
    /\ \E i \in Ops("install_copy") : fsops[i].ok
    /\ target.content = "new"
    /\ host[1] # "windows" => (\E i \in Ops("chmod") : fsops[i].ok)

(* C11: the value run_update returns is fixed by how the run ended: 0 after *)
(* the new binary was installed, 2 after the run stopped as already         *)
(* up-to-date (target equals current, not forced), 1 after every error it   *)
(* reports, 0 after the operator declined; so 2 and 0 tell already          *)
(* up-to-date from updated, a declined run counts as success, and no value  *)
(* is returned before the run ends.                                         *)
C11_ExitCodeByOutcome ==
    /\ pc = "done" <=> result # None
    /\ result # None => result[1] \in {0, 1, 2}
    /\ outcome = "Updated" <=> (result = Some(0) /\ InstalledNewBinary)
    /\ outcome = "Cancelled" <=> (result = Some(0) /\ ~InstalledNewBinary)
    /\ outcome = "Cancelled" => (~force /\ response # None /\ ~SaidYes /\ err = "none")
    /\ outcome = "AlreadyUpToDate" <=> result = Some(2)
    /\ result = Some(2) => (~force /\ target_version = Some(current_version) /\ err = "none")
    /\ outcome = "Failure" <=> result = Some(1)
    /\ result = Some(1) <=> (pc = "done" /\ err # "none")
    /\ result = Some(0) => err = "none"

C11_Witness ==
    /\ result = Some(2)
    /\ version = Some(current_version)
    /\ outcome = "AlreadyUpToDate"
    /\ requests = <<>>

----------------------------------------------------------------------------
(* Direct calls of single functions.  In these specifications run_update    *)
(* is not running; one function is applied once to arguments drawn from     *)
(* bounded sets.                                                            *)

\* Longest tag_name and longest tag_prefix tried.
MaxTagLen == 5
MaxPrefixLen == 2

TagChars == {"t", "v", "1"}

\* run_update has not been called
UpdateNotRunning ==
    /\ pc = "idle"
    /\ version = None
    /\ force = FALSE
    /\ current_version = <<>>
    /\ install_dir = FALSE
    /\ host = <<"linux", "x86_64">>
    /\ target_version = None
    /\ install_path = None
    /\ requests = <<>>
    /\ reads = 0
    /\ response = None
    /\ bytes = None
    /\ checksum_status = "none"
    /\ checksum_text = None
    /\ verification = "none"
    /\ temp_dir = "none"
    /\ extracted = {}
    /\ target = Absent
    /\ target0 = Absent
    /\ backup = Absent
    /\ backup0 = Absent
    /\ fsops = <<>>
    /\ stages = <<>>
    /\ failed = "none"
    /\ err = "none"
    /\ warnings = {}
    /\ outcome = "none"
    /\ result = None

updateVars == <<pc, version, force, current_version, install_dir, host,
                target_version, install_path, requests, reads, response, bytes,
                checksum_status, checksum_text, verification, temp_dir, extracted,
                target, target0, backup, backup0, fsops, stages, failed, err,
                warnings, outcome, result>>

\* check_for_updates (src/doctor.rs) on a response from the metadata endpoint:
\* Ok(None) when the extracted version equals the current one, else Ok(Some)
CheckForUpdates(repo, current, r) ==
    CASE r.kind = "send_err" -> [ok |-> FALSE, val |-> None, err |-> "SendError"]
      [] r.kind = "not_json" -> [ok |-> FALSE, val |-> None, err |-> "ParseError"]
      [] r.tag_name = None   -> [ok |-> FALSE, val |-> None, err |-> "NoTagName"]
      [] OTHER ->
            LET latest == TrimStartMatches(
                              TrimStartMatches(r.tag_name[1], repo.tag_prefix), <<"v">>)
            IN [ok |-> TRUE,
                val |-> IF latest = current THEN None ELSE Some(latest),
                err |-> "none"]

\* A release document whose tag_name is t
ReleaseWithTag(t) == [kind |-> "json", tag_name |-> Some(t)]

\* A repository identity with tag prefix p
RepoWithPrefix(p) == [owner |-> <<"a">>, name |-> <<"t">>, tag_prefix |-> p]

InitTag ==
    /\ UpdateNotRunning
    /\ call \in {"get_latest_version", "check_for_updates"}
    /\ \E t \in SeqsUpTo(TagChars, MaxTagLen), p \in SeqsUpTo(TagChars, MaxPrefixLen) :
          args = [tag |-> t, prefix |-> p, current |-> <<"1">>]
    /\ ret = None

CallGetLatestVersion ==
    /\ call = "get_latest_version"
    /\ ret = None
    /\ ret' = Some(GetLatestVersion(RepoWithPrefix(args.prefix), ReleaseWithTag(args.tag)))
    /\ UNCHANGED <<updateVars, call, args>>

CallCheckForUpdates ==
    /\ call = "check_for_updates"
    /\ ret = None
    /\ ret' = Some(CheckForUpdates(RepoWithPrefix(args.prefix), args.current,
                                   ReleaseWithTag(args.tag)))
    /\ UNCHANGED <<updateVars, call, args>>

NextTag == CallGetLatestVersion \/ CallCheckForUpdates

SpecTag == InitTag /\ [][NextTag]_vars

\* s with one leading occurrence of p removed, if there is one
StripPrefixOnce(s, p) ==
    IF StartsWith(s, p) THEN SubSeq(s, Len(p) + 1, Len(s)) ELSE s

\* The reference version of a tag: the prefix removed once, then one leading v
ReferenceVersion(t, p) == StripPrefixOnce(StripPrefixOnce(t, p), <<"v">>)

(* C12: for every tag T that starts with the prefix P, the version          *)
(* get_latest_version returns, and the one check_for_updates compares and   *)
(* reports, is T with exactly one leading P removed and then exactly one    *)
(* leading v removed if present.                                            *)
C12_Original_VersionIsReference ==
    (ret # None /\ StartsWith(args.tag, args.prefix)) =>
        LET ref == ReferenceVersion(args.tag, args.prefix) IN
        /\ ret[1].ok
        /\ call = "get_latest_version" => ret[1].val = ref
        /\ call = "check_for_updates" =>
              ret[1].val = (IF ref = args.current THEN None ELSE Some(ref))

----------------------------------------------------------------------------
(* Direct call of the checksum verification of perform_update *)

\* The verification block of perform_update on a sidecar body that was
\* obtained: "pass" (Checksum verified) or "fail" (Checksum mismatch!)
VerifyChecksum(b, body) ==
    IF ChecksumMismatch(Sha256Hex(b), ExpectedChecksum(body)) THEN "fail" ELSE "pass"

\* Tokens a sidecar may start with, for the digest d: d itself, in upper
\* case, with only its first letter raised, cut short, and with a digit added.
TokensOf(d) ==
    { d,
      [i \in 1..Len(d) |-> UpperChar(d[i])],
      <<UpperChar(d[1])>> \o Tail(d),
      <<d[1]>>,
      d \o <<"0">> }

\* Sidecar bodies published for the buffers b and c: optional leading white
\* space, a token, an optional rest; and bodies without any token.
VerifyBodies(b, c) ==
    { lead \o tok \o rest :
        lead \in {<<>>, <<" ">>, <<"\n">>},
        tok \in TokensOf(Sha256Hex(b)) \cup TokensOf(Sha256Hex(c)),
        rest \in {<<>>, <<"\n">>, <<" ", " ", "f", "\n">>, <<"\n", "0", "0">>} }
    \cup {<<>>, <<" ", "\n">>}

\* The buffers that differ from b in exactly one byte
SingleByteChanges(b) ==
    { c \in Archives :
        /\ Len(c) = Len(b)
        /\ Cardinality({i \in 1..Len(b) : c[i] # b[i]}) = 1 }

InitVerify ==
    /\ UpdateNotRunning
    /\ call = "verify_checksum"
    /\ \E b \in Archives :
         \E c \in SingleByteChanges(b) :
           \E body \in VerifyBodies(b, c) :
              args = [bytes |-> b, changed |-> c, body |-> body]
    /\ ret = None

\* the verification applied to the buffer, and to a second buffer with the
\* same sidecar body
CallVerify ==
    /\ call = "verify_checksum"
    /\ ret = None
    /\ ret' = Some([first |-> VerifyChecksum(args.bytes, args.body),
                    second |-> VerifyChecksum(args.changed, args.body)])
    /\ UNCHANGED <<updateVars, call, args>>

NextVerify == CallVerify

SpecVerify == InitVerify /\ [][NextVerify]_vars

\* The first white-space delimited token of the body is, ignoring letter
\* case, the hex digest of b.
FirstTokenIsDigestOf(body, b) ==
    /\ FirstToken(body) # None
    /\ ToLowercase(FirstToken(body)[1]) = ToLowercase(Sha256Hex(b))

(* C13: with a sidecar body obtained, verification passes if and only if    *)
(* the first white-space delimited token of the body equals, ignoring       *)
(* letter case, the hex digest of the whole buffer; what follows the first  *)
(* token has no influence, and a buffer whose digest differs from that of a *)
(* buffer that passes fails against the same body.                          *)
C13_PassIffFirstTokenIsDigest ==
    ret # None =>
        /\ ret[1].first = "pass" <=> FirstTokenIsDigestOf(args.body, args.bytes)
        /\ ret[1].second = "pass" <=> FirstTokenIsDigestOf(args.body, args.changed)
        /\ (ret[1].first = "pass" /\ Sha256Hex(args.changed) # Sha256Hex(args.bytes))
              => ret[1].second = "fail"

C13_Witness ==
    /\ ret # None
    /\ ret[1].first = "pass"
    /\ ret[1].second = "fail"
    /\ Len(args.body) > 4
    /\ args.body[1] \in {"A", "B", "C", "D", "E", "F"}
    /\ args.body[3] = " "

----------------------------------------------------------------------------
(* C14: the URLs requested *)

\* The platform tokens get_platform_string can return
PlatformTokens ==
    { "x86_64-unknown-linux-gnu", "aarch64-unknown-linux-gnu", "x86_64-apple-darwin",
      "aarch64-apple-darwin", "x86_64-pc-windows-msvc" }

\* The URL the template gives for a version and a platform token
TemplateUrl(ver, token) ==
    <<"https://github.com/">> \o <<"a">> \o <<"/">> \o <<"t">>
        \o <<"/releases/download/">> \o <<"t", "-", "v">> \o ver \o <<"/">>
        \o <<"t">> \o <<"-">> \o <<token>> \o <<".">>
        \o <<IF token = "x86_64-pc-windows-msvc" THEN "zip" ELSE "tar.gz">>

\* The platform token of a supported host
TokenOfHost ==
    [h \in SupportedHosts |->
        IF h[1] = "windows" THEN "x86_64-pc-windows-msvc"
        ELSE IF h[1] = "macos"
             THEN (IF h[2] = "aarch64" THEN "aarch64-apple-darwin"
                   ELSE "x86_64-apple-darwin")
             ELSE (IF h[2] = "aarch64" THEN "aarch64-unknown-linux-gnu"
                   ELSE "x86_64-unknown-linux-gnu")]

\* C14: every archive request goes to
\* https://github.com/{owner}/{name}/releases/download/{tagPrefix}{version}/{name}-{token}.{ext}
\* for the run's target version and the host's platform token, with ext = zip
\* exactly for the windows token and tar.gz otherwise; every sidecar request
\* follows an archive request and goes to that request's URL with ".sha256"
\* appended.
C14_UrlsFollowTemplate ==
    \A i \in 1..Len(requests) :
        /\ requests[i].kind = "archive" =>
              /\ host \in SupportedHosts
              /\ target_version # None
              /\ TokenOfHost[host] \in PlatformTokens
              /\ requests[i].url = TemplateUrl(target_version[1], TokenOfHost[host])
        /\ requests[i].kind = "sidecar" =>
              /\ i > 1
              /\ requests[i - 1].kind = "archive"
              /\ requests[i].url = requests[i - 1].url \o <<".sha256">>

\* C14 witness: on windows, the archive and then its sidecar were requested,
\* the archive with the zip extension.
C14_Witness ==
    /\ host[1] = "windows"
    /\ Len(requests) >= 2
    /\ requests[Len(requests)].kind = "sidecar"
    /\ requests[Len(requests) - 1].kind = "archive"
    /\ requests[Len(requests) - 1].url[Len(requests[Len(requests) - 1].url)] = "zip"
    /\ target_version = Some(<<"2">>)

----------------------------------------------------------------------------
(* C15: the scratch extraction directory *)

\* The errors perform_update can return once the scratch directory exists
ErrorsAfterTempDir ==
    {"ExtractFailed", "BinaryNotFound", "InstallFailed", "Metadata", "SetPermissions"}

\* C15: the scratch directory exists only while perform_update is between its
\* creation and its return; a run that has ended (returned or panicked) has no
\* scratch directory left, and a run that ended after the directory was created
\* - on an extraction error, a missing binary, a failed copy, a permission
\* failure or success - has removed it.
C15_ScratchDirGoneAtExit ==
    /\ temp_dir = "exists" => pc \in {"find", "backup", "install", "chmod", "cleanup"}
    /\ pc \in {"done", "panicked"} => temp_dir # "exists"
    /\ (pc = "done" /\ (err \in ErrorsAfterTempDir \/ outcome = "Updated"))
          => temp_dir = "removed"
    /\ pc \in {"install", "chmod", "cleanup"} => temp_dir = "exists"

\* C15 witness: a permission failure after the copy, the directory removed.
C15_Witness ==
    /\ pc = "done"
    /\ err = "SetPermissions"
    /\ result = Some(1)
    /\ temp_dir = "removed"
    /\ target.content = "new"

----------------------------------------------------------------------------
(* Direct call of run_doctor (src/doctor.rs) *)

\* Bound on the number of tool-specific checks
MaxChecks == 2

\* DoctorCheck values: passed, and an optional message (the name is only printed)
DoctorCheckValues == [passed : BOOLEAN, message : {None, Some("m")}]

\* the `for check in tool_checks` loop: has_errors after the checks
RECURSIVE ToolCheckLoop(_, _)
ToolCheckLoop(checks, has_errors) ==
    IF checks = <<>> THEN has_errors
    ELSE ToolCheckLoop(Tail(checks),
                       IF Head(checks).passed THEN has_errors ELSE TRUE)

\* the `match check_for_updates(..)`: has_warnings after the update check
UpdateCheckWarns(upd) ==
    IF upd.ok
    THEN (IF upd.val # None THEN TRUE ELSE FALSE)
    ELSE TRUE

\* Mutant of RunDoctor: warnings cause failure too.
MutRunDoctorWarningsFail(checks, current, r) ==
    LET has_errors == ToolCheckLoop(checks, FALSE)
        has_warnings == UpdateCheckWarns(CheckForUpdates(RepoInfo, current, r))
    IN [code |-> IF has_errors \/ has_warnings THEN 1 ELSE 0,
        summary |-> IF has_errors \/ has_warnings THEN "IssuesFound" ELSE "Healthy",
        has_errors |-> has_errors,
        has_warnings |-> has_warnings]

\* run_doctor: the exit code, the summary line printed and the two flags
RunDoctor(checks, current, r) ==
    LET has_errors == ToolCheckLoop(checks, FALSE)
        has_warnings == UpdateCheckWarns(CheckForUpdates(RepoInfo, current, r))
    IN [code |-> IF has_errors THEN 1 ELSE IF has_warnings THEN 0 ELSE 0,
        summary |-> IF has_errors THEN "IssuesFound"
                    ELSE IF has_warnings THEN "WarningsFound" ELSE "Healthy",
        has_errors |-> has_errors,
        has_warnings |-> has_warnings]

InitDoctor ==
    /\ UpdateNotRunning
    /\ call = "run_doctor"
    /\ \E checks \in SeqsUpTo(DoctorCheckValues, MaxChecks),
          current \in Versions, r \in MetadataResponses :
          args = [tool_checks |-> checks, current |-> current, release |-> r]
    /\ ret = None

CallRunDoctor ==
    /\ call = "run_doctor"
    /\ ret = None
    /\ ret' = Some(RunDoctor(args.tool_checks, args.current, args.release))
    /\ UNCHANGED <<updateVars, call, args>>

NextDoctor == CallRunDoctor

SpecDoctor == InitDoctor /\ [][NextDoctor]_vars

\* C16: run_doctor returns 1 exactly when some tool check did not pass, and 0
\* otherwise, whatever the update check gave (update available, up to date,
\* or failed).
C16_ExitCodeFromToolChecksOnly ==
    ret # None =>
        /\ ret[1].code \in {0, 1}
        /\ ret[1].code = 1 <=>
              \E i \in 1..Len(args.tool_checks) : ~args.tool_checks[i].passed
        /\ (\A i \in 1..Len(args.tool_checks) : args.tool_checks[i].passed)
              => ret[1].code = 0

\* C16 witness: all tool checks pass, the update check fails, the code is 0.
C16_Witness ==
    /\ ret # None
    /\ Len(args.tool_checks) = 2
    /\ \A i \in 1..2 : args.tool_checks[i].passed
    /\ args.release.kind = "send_err"
    /\ ret[1].has_warnings
    /\ ret[1].code = 0

----------------------------------------------------------------------------
(* C17, C18, C19: the installation steps *)

\* The host has a permission-bit model
PermissionBits == host[1] \in {"linux", "macos"}

\* C17: a failed copy of the Install Target to the Backup path (which is what
\* happens whenever the Install Target does not exist) never ends the run: it
\* leaves a warning, no error, and the run stands before the copy of the new
\* binary, which is the next filesystem operation.
C17_BackupFailureOnlyWarns ==
    /\ \A i \in Ops("backup_copy") :
          /\ i = 1
          /\ ~fsops[i].ok => "BackupFailed" \in warnings
          /\ (~fsops[i].ok /\ Len(fsops) = 1) =>
                (pc = "install" /\ err = "none" /\ result = None)
    /\ Len(fsops) >= 2 => fsops[2].op = "install_copy"
    /\ (target0.content = "absent" /\ fsops # <<>>) => ~fsops[1].ok
    /\ err # "BackupFailed"
    /\ "BackupFailed" \in warnings => (fsops # <<>> /\ ~fsops[1].ok)

\* C17 witness: the Install Target did not exist, the backup copy failed, and
\* the run ended in Success-Updated.
C17_Witness ==
    /\ outcome = "Updated"
    /\ result = Some(0)
    /\ target0.content = "absent"
    /\ fsops[1] = [op |-> "backup_copy", ok |-> FALSE]
    /\ fsops[2] = [op |-> "install_copy", ok |-> TRUE]
    /\ "BackupFailed" \in warnings
    /\ target.content = "new"

\* C18: with a permission-bit model, a run that ended in Success-Updated
\* copied the extracted binary over the Install Target and, as the very next
\* filesystem operation, set its mode to 0o755, both with success; the mode is
\* only ever set right after a successful copy; and on every platform
\* Success-Updated needs a successful copy.
C18_CopyThenModeBeforeSuccess ==
    /\ (PermissionBits /\ outcome = "Updated") =>
          /\ \E i \in 1..Len(fsops) - 1 :
                /\ fsops[i] = [op |-> "install_copy", ok |-> TRUE]
                /\ fsops[i + 1] = [op |-> "chmod", ok |-> TRUE]
          /\ target = [content |-> "new", mode |-> ExecMode]
    /\ \A j \in Ops("chmod") :
          /\ PermissionBits
          /\ j > 1
          /\ fsops[j - 1] = [op |-> "install_copy", ok |-> TRUE]
    /\ outcome = "Updated" =>
          /\ \E i \in Ops("install_copy") : fsops[i].ok
          /\ \A i \in Ops("install_copy") \cup Ops("chmod") : fsops[i].ok
          /\ target.content = "new"
    /\ (pc = "cleanup" /\ PermissionBits) => target.mode = ExecMode

\* C18 witness: on linux the archive carried the binary with mode 0o644, and
\* the run ended in Success-Updated with the mode set.
C18_Witness ==
    /\ host[1] = "linux"
    /\ outcome = "Updated"
    /\ \E f \in extracted : f.name = <<"t">> /\ f.mode = 420
    /\ target.mode = ExecMode
    /\ \E j \in Ops("chmod") : fsops[j].ok

\* C19: when reading the metadata or setting the permissions fails, the run
\* returns the failure code although the Install Target already holds the new
\* binary, and the Backup is as the backup step left it (nothing removes it:
\* after a successful backup copy it holds the old binary); a Failure with no
\* attempt at the copy of the new binary leaves the Install Target unchanged.
C19_FailureAfterCopyKeepsNewBinary ==
    /\ (pc = "done" /\ err \in {"Metadata", "SetPermissions"}) =>
          /\ result = Some(1)
          /\ outcome = "Failure"
          /\ target.content = "new"
          /\ \E i \in Ops("install_copy") : fsops[i].ok
          /\ Ops("backup_remove") = {}
          /\ fsops[1].ok => (backup = target0 /\ backup.content = "old")
          /\ ~fsops[1].ok => backup.content \in {backup0.content, "partial"}
    /\ (result = Some(1) /\ Ops("install_copy") = {}) => target = target0

\* C19 witness: the permission change failed after the copy; the run returned
\* 1, the Install Target is the new binary, the Backup holds the old one.
C19_Witness ==
    /\ result = Some(1)
    /\ err = "SetPermissions"
    /\ target0.content = "old"
    /\ target.content = "new"
    /\ backup = target0
    /\ fsops[Len(fsops)] = [op |-> "chmod", ok |-> FALSE]

====
